---- MODULE Spec2Model ----
(***************************************************************************)
(* Model of your_agent/agent.py: GameStrategy, a depth-limited minimax     *)
(* search with alpha-beta pruning that picks an Othello move.              *)
(*                                                                         *)
(* The search is modelled at statement granularity.  Board objects live in *)
(* a heap and are held by reference, as in Python; deepcopy allocates.     *)
(* Every call of _min_score/_max_score is a frame of an explicit stack.    *)
(* The Board collaborator (board.py, which the agent imports) is modelled  *)
(* as Othello on a Size x Size grid.                                       *)
(***************************************************************************)
EXTENDS Integers, Sequences, FiniteSets

\* ------------------------------------------------------------------ bounds
\* Side of the square board (8 in the game the agent plays).
Size == 4
\* The root positions are those at most MaxPly plies (a move or a pass) after
\* the opening.
MaxPly == 3
\* Largest depth_limit handed to the constructor directly.
MaxDepthLimit == 3
\* A search whose remaining depth went negative is followed down to
\* -MaxUnderflow and no further.
MaxUnderflow == 2

\* ------------------------------------------------------- program constants
\* make_move: GameStrategy(4, the_board, color)
MakeMoveDepth == 4

\* ------------------------------------------------------------ score values
\* A score is a pair <<k, n>>: k = 0 for the integer n, k = 1 for
\* float('inf') and k = -1 for -float('inf').
Fin(n) == <<0, n>>
INFINITY == <<1, 0>>
NegINFINITY == <<-1, 0>>

\* Python's < on int/float('inf') operands.
Lt(a, b) == a[1] < b[1] \/ (a[1] = 0 /\ b[1] = 0 /\ a[2] < b[2])
Le(a, b) == Lt(a, b) \/ a = b
Gt(a, b) == Lt(b, a)
Ge(a, b) == Le(b, a)
\* Python's min(a, b) / max(a, b): the first argument wins a tie.
PyMin(a, b) == IF Lt(b, a) THEN b ELSE a
PyMax(a, b) == IF Gt(b, a) THEN b ELSE a

\* ---------------------------------------------------- Board collaborator
Colors == {"B", "W"}
Empty == "."
Index == 1 .. Size
Cells == Index \X Index
Directions == {d \in {-1, 0, 1} \X {-1, 0, 1} : d # <<0, 0>>}

_opponent_color(color) == IF color = "W" THEN "B" ELSE "W"

\* The cell k steps away from cell c in direction d.
Step(c, d, k) == <<c[1] + d[1] * k, c[2] + d[2] * k>>

At(tiles, c) == tiles[c[1]][c[2]]

\* Length of the run of `who` tiles that starts k steps from cell c in direction d.
RECURSIVE RunLen(_, _, _, _, _)
RunLen(tiles, c, d, who, k) ==
    LET x == Step(c, d, k)
    IN  IF x \in Cells /\ At(tiles, x) = who THEN 1 + RunLen(tiles, c, d, who, k + 1) ELSE 0

\* The tiles a move of `color` at cell c flips in direction d.
FlipsDir(tiles, c, d, color) ==
    LET n == RunLen(tiles, c, d, _opponent_color(color), 1)
        e == Step(c, d, n + 1)
    IN  IF n >= 1 /\ e \in Cells /\ At(tiles, e) = color
        THEN {Step(c, d, j) : j \in 1 .. n}
        ELSE {}

Flips(tiles, c, color) == UNION {FlipsDir(tiles, c, d, color) : d \in Directions}

is_legal(tiles, c, color) ==
    At(tiles, c) = Empty /\ \E d \in Directions : FlipsDir(tiles, c, d, color) # {}

\* The cells in enumeration order: row by row.
CellSeq == [k \in 1 .. Size * Size |-> <<((k - 1) \div Size) + 1, ((k - 1) % Size) + 1>>]

\* board.legal_moves(color): the legal moves in enumeration order.
legal_moves(tiles, color) == SelectSeq(CellSeq, LAMBDA c : is_legal(tiles, c, color))

\* board.process_move(move, color): place the tile and flip the bracketed runs.
process_move(tiles, move, color) ==
    LET turned == Flips(tiles, move, color) \cup {move}
    IN  [i \in Index |-> [j \in Index |-> IF <<i, j>> \in turned THEN color ELSE tiles[i][j]]]

\* The opening position: the four centre tiles.
Opening ==
    LET a == Size \div 2
    IN  [i \in Index |-> [j \in Index |->
            IF <<i, j>> \in {<<a, a>>, <<a + 1, a + 1>>} THEN "W"
            ELSE IF <<i, j>> \in {<<a, a + 1>>, <<a + 1, a>>} THEN "B"
            ELSE Empty]]

Successors(tiles, color) ==
    {process_move(tiles, c, color) : c \in {x \in Cells : is_legal(tiles, x, color)}}

\* The positions k plies after the opening with `color` to play.  Black opens;
\* a ply is a move or a pass.
RECURSIVE ReachAt(_, _)
ReachAt(k, color) ==
    IF k = 0 THEN (IF color = "B" THEN {Opening} ELSE {})
    ELSE LET prev == ReachAt(k - 1, _opponent_color(color))
         IN  prev \cup UNION {Successors(b, _opponent_color(color)) : b \in prev}

\* The positions at most n plies after the opening.
Reach(n) == UNION {ReachAt(k, color) : <<k, color>> \in (0 .. n) \X Colors}

\* ------------------------------------------------------ static evaluation
_count_pieces(tiles, color) ==
    Cardinality({c \in Cells : tiles[c[1]][c[2]] = color})

_cost_compute(tiles, color) ==
    LET oponent_pieces == _count_pieces(tiles, _opponent_color(color))
        my_pieces == _count_pieces(tiles, color)
    IN  Fin(my_pieces - oponent_pieces)

\* ----------------------------------------------------------------- state
VARIABLES
    args,     \* the constructor's arguments depth_limit and color (board: heap[1])
    heap,     \* the Board objects alive, by reference (1 is the caller's board)
    self,     \* the GameStrategy object's fields
    phase,    \* "new", "constructed", "searching", "returned", "raised"
    root,     \* the locals of alpha_beta_min_max
    stack,    \* the frames of _min_score/_max_score, innermost last
    ret,      \* the value the last finished call returned, by which return statement
              \* ("eval", "cutoff", "exhausted"), and the frame that returned it
    result,   \* the move alpha_beta_min_max returned
    error,    \* the exception that ended the run
    calls     \* how many calls of _min_score/_max_score the run has made

vars == <<args, heap, self, phase, root, stack, ret, result, error, calls>>

NoMove == <<0, 0>>
NoFrame == [fn |-> "none", board |-> 0, color |-> "", alpha |-> NegINFINITY,
            beta |-> INFINITY, depth |-> 0, pc |-> "none", moves |-> <<>>, i |-> 0,
            best_score |-> Fin(0)]
NoRet == [value |-> Fin(0), via |-> "none", frame |-> NoFrame]
NoSelf == [depth_limit |-> 0, board |-> 0, color |-> "", opponent_color |-> ""]
NoRoot == [legal_moves |-> <<>>, i |-> 0, best_score |-> NegINFINITY,
           final_move |-> NoMove, scores |-> <<>>, pc |-> "none"]

\* The depth limits of the runs: those given to the constructor directly and
\* the one make_move gives it.
DepthLimits == (0 .. MaxDepthLimit) \cup {MakeMoveDepth}

Init ==
    /\ args \in [depth_limit : DepthLimits, color : Colors]
    /\ \E b \in Reach(MaxPly) : heap = <<b>>
    /\ self = NoSelf
    /\ phase = "new"
    /\ root = NoRoot
    /\ stack = <<>>
    /\ ret = NoRet
    /\ result = NoMove
    /\ error = "none"
    /\ calls = 0

\* ------------------------------------------------------------ copying
\* A faulty deepcopy: the reference is copied, not the object.
deepcopy_alias(h, b) == [heap |-> h, ref |-> b]

\* deepcopy(board): a new object with the same tiles; the new reference.
deepcopy(h, b) == [heap |-> Append(h, h[b]), ref |-> Len(h) + 1]

\* test_board = deepcopy(board); test_board.process_move(move, color)
TestBoard(h, b, move, color) ==
    LET cp == deepcopy(h, b)
    IN  [heap |-> [cp.heap EXCEPT ![cp.ref] = process_move(cp.heap[cp.ref], move, color)],
         ref |-> cp.ref]

\* The object a finished call searched is garbage once the call has returned.
Release(h) == SubSeq(h, 1, Len(h) - 1)

\* ----------------------------------------------------------- __init__
CanGameStrategyInit == phase = "new"

GameStrategyInit ==
    /\ CanGameStrategyInit
    /\ self' = [depth_limit |-> args.depth_limit, board |-> 1, color |-> args.color,
                opponent_color |-> _opponent_color(args.color)]
    /\ phase' = "constructed"
    /\ UNCHANGED <<args, heap, root, stack, ret, result, error, calls>>

\* -------------------------------------------------- alpha_beta_min_max
\* A faulty InitialFinalMove: no move is selected before the loop.
InitialFinalMove_none(moves) == NoMove

\* final_move = legal_moves[0]
InitialFinalMove(moves) == moves[1]

\* self.depth_limit-1
InitialDepth(depth_limit) == depth_limit - 1

\* A faulty RootImproves: a tie replaces the current best.
RootImproves_tie(score, best_score) == Ge(score, best_score)

\* if score > best_score
RootImproves(score, best_score) == Gt(score, best_score)

\* alpha_beta_min_max is at `pc` and no call of _min_score is running.
RootAt(pc) == phase = "searching" /\ stack = <<>> /\ root.pc = pc

CanAlphaBetaRaise ==
    phase = "constructed" /\ legal_moves(heap[self.board], self.color) = <<>>

\* legal_moves[0] on an empty list
AlphaBetaRaise ==
    /\ CanAlphaBetaRaise
    /\ phase' = "raised"
    /\ error' = "IndexError"
    /\ UNCHANGED <<args, heap, self, root, stack, ret, result, calls>>

CanAlphaBetaStart ==
    phase = "constructed" /\ legal_moves(heap[self.board], self.color) # <<>>

\* the statements before the loop
AlphaBetaStart ==
    /\ CanAlphaBetaStart
    /\ LET moves == legal_moves(heap[self.board], self.color)
       IN  root' = [legal_moves |-> moves, i |-> 1, best_score |-> NegINFINITY,
                    final_move |-> InitialFinalMove(moves), scores |-> <<>>,
                    pc |-> "loop"]
    /\ phase' = "searching"
    /\ UNCHANGED <<args, heap, self, stack, ret, result, error, calls>>

\* The frame of a call that is about to run its first statement.
Frame(fn, board, color, alpha, beta, depth) ==
    [fn |-> fn, board |-> board, color |-> color, alpha |-> alpha, beta |-> beta,
     depth |-> depth, pc |-> "entry", moves |-> <<>>, i |-> 0, best_score |-> Fin(0)]

CanRootCall == RootAt("loop") /\ root.i <= Len(root.legal_moves)

\* the loop body down to the call of _min_score
RootCall ==
    /\ CanRootCall
    /\ LET tb == TestBoard(heap, self.board, root.legal_moves[root.i], self.color)
       IN  /\ heap' = tb.heap
           /\ stack' = <<Frame("min", tb.ref, self.opponent_color, NegINFINITY, INFINITY,
                               InitialDepth(self.depth_limit))>>
    /\ root' = [root EXCEPT !.pc = "call"]
    /\ calls' = calls + 1
    /\ UNCHANGED <<args, self, phase, ret, result, error>>

CanRootAfter == RootAt("call")

\* the loop body after the call
RootAfter ==
    /\ CanRootAfter
    /\ LET score == ret.value
           move == root.legal_moves[root.i]
           better == RootImproves(score, root.best_score)
       IN  root' = [root EXCEPT !.best_score = IF better THEN score ELSE @,
                                !.final_move = IF better THEN move ELSE @,
                                !.scores = Append(@, score),
                                !.i = @ + 1,
                                !.pc = "loop"]
    /\ ret' = NoRet
    /\ UNCHANGED <<args, heap, self, phase, stack, result, error, calls>>

CanRootReturn == RootAt("loop") /\ root.i > Len(root.legal_moves)

\* return final_move
RootReturn ==
    /\ CanRootReturn
    /\ result' = root.final_move
    /\ phase' = "returned"
    /\ UNCHANGED <<args, heap, self, root, stack, ret, error, calls>>

\* ------------------------------------------- _min_score / _max_score
\* A faulty ChildDepth: the recursion forgets to count down.
ChildDepth_same(depth) == depth

\* depth-1 in the recursive calls
ChildDepth(depth) == depth - 1

\* A faulty MinInitialBest: the initial value of _max_score.
MinInitialBest_neg == NegINFINITY

\* best_score = INFINITY / best_score = -INFINITY
MinInitialBest == INFINITY
MaxInitialBest == NegINFINITY

\* A faulty MinCutoff: the cutoff needs a strictly smaller score.
MinCutoff_strict(best_score, alpha) == Lt(best_score, alpha)

\* A faulty MaxCutoff: the comparison is turned around.
MaxCutoff_turned(best_score, beta) == Le(best_score, beta)

\* if best_score <= alpha / if best_score >= beta
MinCutoff(best_score, alpha) == Le(best_score, alpha)
MaxCutoff(best_score, beta) == Ge(best_score, beta)

Top == stack[Len(stack)]
Pop == SubSeq(stack, 1, Len(stack) - 1)
SetTop(f) == [stack EXCEPT ![Len(stack)] = f]

\* The innermost call is one of `fn` and is at `pc`.
Running(fn, pc) == phase = "searching" /\ stack # <<>> /\ Top.fn = fn /\ Top.pc = pc

\* The loop of the innermost call has a move left / the search is followed.
MoreMoves == Top.i <= Len(Top.moves)
Followed == Top.depth > -MaxUnderflow

\* return v from the innermost call
Return(v, via) ==
    /\ stack' = Pop
    /\ heap' = Release(heap)
    /\ ret' = [value |-> v, via |-> via, frame |-> Top]

CanMinEntry == Running("min", "entry")

\* _min_score: "if depth == 0: return ..." down to the head of the for loop
MinEntry ==
    /\ CanMinEntry
    /\ IF Top.depth = 0
       THEN Return(_cost_compute(heap[Top.board], Top.color), "eval")
       ELSE /\ stack' = SetTop([Top EXCEPT !.best_score = MinInitialBest,
                                           !.moves = legal_moves(heap[Top.board], Top.color),
                                           !.i = 1,
                                           !.pc = "loop"])
            /\ UNCHANGED <<heap, ret>>
    /\ UNCHANGED <<args, self, phase, root, result, error, calls>>

CanMinCall == Running("min", "loop") /\ MoreMoves /\ Followed

\* _min_score: the loop body down to the call of _max_score
MinCall ==
    /\ CanMinCall
    /\ LET tb == TestBoard(heap, Top.board, Top.moves[Top.i], Top.color)
       IN  /\ heap' = tb.heap
           /\ stack' = Append(SetTop([Top EXCEPT !.pc = "call"]),
                              Frame("max", tb.ref, _opponent_color(Top.color),
                                    Top.alpha, Top.beta, ChildDepth(Top.depth)))
    /\ calls' = calls + 1
    /\ UNCHANGED <<args, self, phase, root, ret, result, error>>

CanMinAfter == Running("min", "call")

\* _min_score: the loop body after the call
MinAfter ==
    /\ CanMinAfter
    /\ LET score == ret.value
           best_score == IF Lt(score, Top.best_score) THEN score ELSE Top.best_score
       IN  IF MinCutoff(best_score, Top.alpha)
           THEN Return(best_score, "cutoff")
           ELSE /\ stack' = SetTop([Top EXCEPT !.best_score = best_score,
                                               !.beta = PyMin(Top.beta, best_score),
                                               !.i = @ + 1,
                                               !.pc = "loop"])
                /\ ret' = NoRet
                /\ UNCHANGED heap
    /\ UNCHANGED <<args, self, phase, root, result, error, calls>>

CanMinExhausted == Running("min", "loop") /\ ~MoreMoves

\* _min_score: "return best_score" after the loop
MinExhausted ==
    /\ CanMinExhausted
    /\ Return(Top.best_score, "exhausted")
    /\ UNCHANGED <<args, self, phase, root, result, error, calls>>

CanMaxEntry == Running("max", "entry")

\* _max_score: "if depth == 0: return ..." down to the head of the for loop
MaxEntry ==
    /\ CanMaxEntry
    /\ IF Top.depth = 0
       THEN Return(_cost_compute(heap[Top.board], Top.color), "eval")
       ELSE /\ stack' = SetTop([Top EXCEPT !.best_score = MaxInitialBest,
                                           !.moves = legal_moves(heap[Top.board], Top.color),
                                           !.i = 1,
                                           !.pc = "loop"])
            /\ UNCHANGED <<heap, ret>>
    /\ UNCHANGED <<args, self, phase, root, result, error, calls>>

CanMaxCall == Running("max", "loop") /\ MoreMoves /\ Followed

\* _max_score: the loop body down to the call of _min_score
MaxCall ==
    /\ CanMaxCall
    /\ LET tb == TestBoard(heap, Top.board, Top.moves[Top.i], Top.color)
       IN  /\ heap' = tb.heap
           /\ stack' = Append(SetTop([Top EXCEPT !.pc = "call"]),
                              Frame("min", tb.ref, _opponent_color(Top.color),
                                    Top.alpha, Top.beta, ChildDepth(Top.depth)))
    /\ calls' = calls + 1
    /\ UNCHANGED <<args, self, phase, root, ret, result, error>>

CanMaxAfter == Running("max", "call")

\* _max_score: the loop body after the call
MaxAfter ==
    /\ CanMaxAfter
    /\ LET score == ret.value
           best_score == IF Gt(score, Top.best_score) THEN score ELSE Top.best_score
       IN  IF MaxCutoff(best_score, Top.beta)
           THEN Return(best_score, "cutoff")
           ELSE /\ stack' = SetTop([Top EXCEPT !.best_score = best_score,
                                               !.alpha = PyMax(Top.alpha, best_score),
                                               !.i = @ + 1,
                                               !.pc = "loop"])
                /\ ret' = NoRet
                /\ UNCHANGED heap
    /\ UNCHANGED <<args, self, phase, root, result, error, calls>>

CanMaxExhausted == Running("max", "loop") /\ ~MoreMoves

\* _max_score: "return best_score" after the loop
MaxExhausted ==
    /\ CanMaxExhausted
    /\ Return(Top.best_score, "exhausted")
    /\ UNCHANGED <<args, self, phase, root, result, error, calls>>

Next ==
    \/ GameStrategyInit
    \/ AlphaBetaRaise
    \/ AlphaBetaStart
    \/ RootCall
    \/ RootAfter
    \/ RootReturn
    \/ MinEntry
    \/ MinCall
    \/ MinAfter
    \/ MinExhausted
    \/ MaxEntry
    \/ MaxCall
    \/ MaxAfter
    \/ MaxExhausted

Spec == Init /\ [][Next]_vars

\* ---------------------------------------------------- reference search
\* Minimax without pruning: the same leaf evaluation, the same sentinels for
\* a side without moves, every move of every node searched.
Least(S) == CHOOSE v \in S : \A w \in S : Le(v, w)
Greatest(S) == CHOOSE v \in S : \A w \in S : Ge(v, w)

RECURSIVE MinimaxMin(_, _, _), MinimaxMax(_, _, _)
MinimaxMin(tiles, color, depth) ==
    IF depth = 0 THEN _cost_compute(tiles, color)
    ELSE LET moves == legal_moves(tiles, color)
         IN  Least({INFINITY} \cup
                   {MinimaxMax(process_move(tiles, moves[k], color), _opponent_color(color),
                               depth - 1) : k \in 1 .. Len(moves)})

MinimaxMax(tiles, color, depth) ==
    IF depth = 0 THEN _cost_compute(tiles, color)
    ELSE LET moves == legal_moves(tiles, color)
         IN  Greatest({NegINFINITY} \cup
                      {MinimaxMin(process_move(tiles, moves[k], color), _opponent_color(color),
                                  depth - 1) : k \in 1 .. Len(moves)})

\* The number of calls an unpruned search makes below a node.
RECURSIVE FullCalls(_, _, _)
FullCalls(tiles, color, depth) ==
    IF depth = 0 THEN 0
    ELSE LET moves == legal_moves(tiles, color)
             below(k) == FullCalls(process_move(tiles, moves[k], color),
                                   _opponent_color(color), depth - 1)
             F[k \in 0 .. Len(moves)] == IF k = 0 THEN 0 ELSE F[k - 1] + 1 + below(k)
         IN  F[Len(moves)]

\* The first index of a greatest score (1 when there are no scores).
FirstBest(scores) ==
    IF scores = <<>> THEN 1
    ELSE CHOOSE k \in 1 .. Len(scores) :
            /\ \A j \in 1 .. Len(scores) : Le(scores[j], scores[k])
            /\ \A j \in 1 .. k - 1 : Lt(scores[j], scores[k])

\* The move an unpruned search of depth depth_limit selects at the root.
MinimaxMove(tiles, color, depth_limit) ==
    LET moves == legal_moves(tiles, color)
        scores == [k \in 1 .. Len(moves) |->
                      MinimaxMin(process_move(tiles, moves[k], color),
                                 _opponent_color(color), depth_limit - 1)]
    IN  moves[FirstBest(scores)]

\* The first move that leaves `color` the greatest material difference.
GreedyMove(tiles, color) ==
    LET moves == legal_moves(tiles, color)
        scores == [k \in 1 .. Len(moves) |->
                      _cost_compute(process_move(tiles, moves[k], color), color)]
    IN  moves[FirstBest(scores)]

RootTiles == heap[1]
Returned == phase = "returned"

\* --------------------------------------------------------------- claims

\* C1: for every depth_limit >= 1 the move alpha_beta_min_max returns is the
\* move an unpruned minimax search of the same depth selects (same leaf
\* evaluation, same enumeration order, same strict-improvement selection).
C1_PruningKeepsMove ==
    (Returned /\ args.depth_limit >= 1)
        => result = MinimaxMove(RootTiles, args.color, args.depth_limit)

\* A search that returned after visiting fewer nodes than the unpruned one.
C1_Witness ==
    /\ Returned /\ args.depth_limit >= 1
    /\ calls < FullCalls(RootTiles, args.color, args.depth_limit)
    /\ result = MinimaxMove(RootTiles, args.color, args.depth_limit)

\* C2: with depth_limit = 1 the returned move is the first move, in
\* enumeration order, that maximizes the engine's own material difference on
\* the board right after the move.
C2_DepthOneIsGreedy ==
    (Returned /\ args.depth_limit = 1) => result = GreedyMove(RootTiles, args.color)

\* The leaf is evaluated for the opponent: a depth-1 search returned the first
\* move that leaves the opponent the greatest material difference, and it is
\* not the greedy move.
C2_Witness ==
    /\ Returned /\ args.depth_limit = 1
    /\ LET moves == legal_moves(RootTiles, args.color)
           scores == [k \in 1 .. Len(moves) |->
                         _cost_compute(process_move(RootTiles, moves[k], args.color),
                                       _opponent_color(args.color))]
       IN  result = moves[FirstBest(scores)]
    /\ result # GreedyMove(RootTiles, args.color)

\* C3: the move returned is one of board.legal_moves(color) of the root
\* position, for every depth_limit and whatever the candidates score.
C3_ReturnsLegalMove ==
    Returned => \E k \in 1 .. Len(legal_moves(RootTiles, args.color)) :
                    result = legal_moves(RootTiles, args.color)[k]

\* A legal move was returned although every candidate scored -infinity.
C3_Witness ==
    /\ Returned /\ args.depth_limit >= 1
    /\ \A k \in 1 .. Len(root.scores) : root.scores[k] = NegINFINITY
    /\ \E k \in 1 .. Len(legal_moves(RootTiles, args.color)) :
           result = legal_moves(RootTiles, args.color)[k]

\* C4: the current best is replaced on strict improvement only: the selected
\* move is always the first move, in enumeration order, among the moves
\* scored so far whose _min_score value is the greatest, and so is the move
\* returned among all root moves.
C4_FirstBestWins ==
    /\ phase = "searching" =>
          /\ root.final_move = root.legal_moves[FirstBest(root.scores)]
          /\ root.scores # <<>> => root.best_score = root.scores[FirstBest(root.scores)]
    /\ Returned =>
          /\ Len(root.scores) = Len(root.legal_moves)
          /\ result = root.legal_moves[FirstBest(root.scores)]

\* A later move tied with the returned one for the greatest score.
C4_Witness ==
    /\ Returned /\ args.depth_limit >= 1
    /\ \E k \in 1 .. Len(root.scores) :
          /\ root.scores[k] = root.best_score
          /\ root.legal_moves[k] # result
    /\ result = root.legal_moves[FirstBest(root.scores)]

\* C5: with no legal move for the side to move at the root, the engine ends
\* in the distinct IllegalState failure: no move, no unrelated error.
C5_NoMovesIsIllegalState ==
    (phase \in {"searching", "returned", "raised"}
        /\ legal_moves(RootTiles, args.color) = <<>>)
        => (phase = "raised" /\ error = "IllegalState")

\* The run on a root without legal moves ended in IndexError.
C5_Witness ==
    /\ phase = "raised" /\ error = "IndexError"
    /\ legal_moves(RootTiles, args.color) = <<>>

\* C6: constructing a GameStrategy with depth_limit <= 0 fails with
\* InvalidArgument, so no search starts with a non-positive depth limit.
C6_NonPositiveDepthRejected ==
    args.depth_limit <= 0
        => (phase = "new" \/ (phase = "raised" /\ error = "InvalidArgument"))

\* A GameStrategy constructed with depth_limit 0 searched below depth 0 and
\* returned a move.
C6_Witness ==
    /\ Returned /\ args.depth_limit = 0 /\ self.depth_limit = 0
    /\ calls > Len(root.legal_moves)

\* C7: the search changes no position it was given: no step changes the
\* tiles of the root board, nor the tiles of the board of any call that is
\* still running, whatever moves are explored below it.
C7_BoardsUntouched ==
    [][/\ heap'[1] = heap[1]
       /\ \A k \in 1 .. Len(stack) :
             k <= Len(stack') =>
                 /\ stack'[k].board = stack[k].board
                 /\ stack[k].board <= Len(heap')
                 /\ heap'[stack[k].board] = heap[stack[k].board]]_vars

\* The search returned and the root board still has the very moves it had
\* when the search enumerated them.
C7_Witness ==
    /\ Returned /\ args.depth_limit >= 2
    /\ Len(root.legal_moves) >= 2
    /\ legal_moves(RootTiles, args.color) = root.legal_moves
    /\ heap = <<RootTiles>>

\* The frame that called frame k (the root call for k = 1).
CallerDepth(k) == IF k = 1 THEN self.depth_limit ELSE stack[k - 1].depth
CallerColor(k) == IF k = 1 THEN self.color ELSE stack[k - 1].color

DepthCountsDown ==
    \A k \in 1 .. Len(stack) :
        /\ stack[k].depth = CallerDepth(k) - 1
        /\ stack[k].color = _opponent_color(CallerColor(k))
        /\ stack[k].color # CallerColor(k)
        /\ args.depth_limit >= 1 => stack[k].depth >= 0

\* What a frame has left to do: more before its loop than in it, one less
\* with every call and with every return of a callee.
FrameWork(f) ==
    IF f.pc = "entry" THEN 2 * Size * Size + 3
    ELSE 2 * (Len(f.moves) - f.i + 1) + (IF f.pc = "loop" THEN 1 ELSE 0)

RootWork ==
    IF root.pc = "none" THEN 0
    ELSE 2 * (Len(root.legal_moves) - root.i + 1) + (IF root.pc = "loop" THEN 1 ELSE 0)

PhaseWork ==
    CASE phase = "new" -> 3
      [] phase = "constructed" -> 2
      [] phase = "searching" -> 1
      [] OTHER -> 0

Work == <<PhaseWork, RootWork>> \o [k \in 1 .. Len(stack) |-> FrameWork(stack[k])]

\* The lexicographic order, a proper prefix being smaller.
LexLess(a, b) ==
    \E k \in 1 .. Len(b) :
        /\ \A j \in 1 .. k - 1 : j <= Len(a) /\ a[j] = b[j]
        /\ (k > Len(a) \/ a[k] < b[k])

Finished == phase \in {"returned", "raised"}

\* Some step of the program can be taken.
CanStep ==
    \/ CanGameStrategyInit \/ CanAlphaBetaRaise \/ CanAlphaBetaStart
    \/ CanRootCall \/ CanRootAfter \/ CanRootReturn
    \/ CanMinEntry \/ CanMinCall \/ CanMinAfter \/ CanMinExhausted
    \/ CanMaxEntry \/ CanMaxCall \/ CanMaxAfter \/ CanMaxExhausted

\* C8: for depth_limit >= 1 every call of _min_score/_max_score has a
\* remaining depth one less than its caller's and the complementary side,
\* the remaining depth is never negative, and the search terminates: the
\* stack is never deeper than depth_limit, the search is never stuck before
\* it has finished, and every step reduces the work left.
C8_DepthAndTermination ==
    /\ [](DepthCountsDown
          /\ (args.depth_limit >= 1 =>
                 /\ Len(stack) <= args.depth_limit
                 /\ (Finished \/ CanStep)))
    /\ [][LexLess(Work', Work)]_vars

\* A search of depth two or more that recursed below its first level (more
\* calls than root moves) and returned.
C8_Witness ==
    /\ Returned /\ args.depth_limit >= 2
    /\ calls > Len(root.legal_moves)

\* C9: a step entered with remaining depth > 0 whose side has no legal move
\* returns by the statement after its (empty) loop, without an evaluation and
\* without a call: +infinity from _min_score, -infinity from _max_score,
\* whatever the tiles, alpha and beta.
C9_NoMovesReturnsSentinel ==
    (ret.via # "none" /\ ret.frame.depth > 0 /\ ret.frame.moves = <<>>)
        => /\ ret.via = "exhausted"
           /\ ret.frame.i = 1
           /\ ret.frame.fn = "min" => ret.value = INFINITY
           /\ ret.frame.fn = "max" => ret.value = NegINFINITY

\* _min_score, called from _max_score inside a window whose alpha was no
\* longer -infinity, returned +infinity for a side without moves.
C9_Witness ==
    /\ ret.via = "exhausted" /\ ret.frame.fn = "min"
    /\ ret.frame.depth > 0 /\ ret.frame.moves = <<>>
    /\ ret.value = INFINITY
    /\ stack # <<>> /\ ret.frame.alpha # NegINFINITY

WindowOpen == \A k \in 1 .. Len(stack) : Lt(stack[k].alpha, stack[k].beta)

CallerWindowKept ==
    \A k \in 1 .. Len(stack) - 1 :
        k <= Len(stack') =>
            /\ stack'[k].alpha = stack[k].alpha
            /\ stack'[k].beta = stack[k].beta

\* C10: every call of _min_score/_max_score is entered with alpha < beta and
\* keeps alpha < beta whenever it goes on to a later sibling after tightening
\* its own bound; no callee changes the alpha or beta of a caller.
C10_WindowStaysOpen == []WindowOpen /\ [][CallerWindowKept]_vars

\* _min_score went on to a later sibling with both bounds finite, beta
\* tightened to the best score.
C10_Witness ==
    /\ stack # <<>> /\ Top.fn = "min" /\ Top.pc = "loop" /\ Top.i > 1
    /\ Top.alpha[1] = 0 /\ Top.beta = Top.best_score
    /\ Lt(Top.alpha, Top.beta)

====
